---- MODULE Spec2Model ----
(***************************************************************************)
(* A model of url-extractor.py: the fetcher (fetch_url), the per-source    *)
(* pipeline (process_single_url), the orchestrator (run_extraction), the   *)
(* writers (write_results_txt, write_results_json) and main with its       *)
(* SIGINT handler.  Python strings are TLA+ strings; Optional values are   *)
(* sequences of length 0 (None) or 1.                                      *)
(***************************************************************************)
EXTENDS Integers, Sequences, FiniteSets, TLC

VARIABLES
    fetch,      \* SpecFetch: the frame of one call of fetch_url
    outfile,    \* the output file: [exists, content, readable]
    call,       \* SpecTxt, SpecFilter, SpecMatch, SpecProcess: the call of
                \* the function the specification is about
    config,     \* Spec: the Config main builds
    infile,     \* the input file: [readable, content]
    pc,         \* where the main thread is
    js_urls,    \* run_extraction's list of sources
    tasks,      \* the calls of process_single_url, in submission order
    results,    \* run_extraction's list of results
    wq,         \* what the writer has still to write
    exit,       \* the exit status of the process, and why
    origin      \* the output file as it was before the run

runvars == <<config, infile, pc, js_urls, tasks, results, wq, exit, origin>>

vars == <<fetch, outfile, call, runvars>>

\* No run of main: the state of the specifications of single calls.
NoRun ==
    /\ config = <<>> /\ infile = <<>> /\ pc = "none" /\ js_urls = <<>>
    /\ tasks = <<>> /\ results = <<>> /\ wq = <<>> /\ exit = <<>>
    /\ origin = <<>>

----------------------------------------------------------------------------
(* Python values *)

None == <<>>
Some(v) == <<v>>

\* The i-th character of a string, as a string of length 1.
Ch(s, i) == SubSeq(s, i, i)

\* s[:n]
Take(s, n) == IF Len(s) <= n THEN s ELSE SubSeq(s, 1, n)

\* Printable ASCII (and the whitespace str.strip knows) in code point order.
Ascii ==
    "\t\n\r !\"#$%&'()*+,-./0123456789:;<=>?@ABCDEFGHIJKLMNOPQRSTUVWXYZ"
    \o "[\\]^_abcdefghijklmnopqrstuvwxyz{|}~"

\* The place of a character in the code point order.
Ord == [c \in {Ch(Ascii, i) : i \in 1..Len(Ascii)} |->
            CHOOSE i \in 1..Len(Ascii) : Ch(Ascii, i) = c]

RECURSIVE StrLessFrom(_, _, _)
StrLessFrom(a, b, i) ==
    IF i > Len(b) THEN FALSE
    ELSE IF i > Len(a) THEN TRUE
    ELSE IF Ch(a, i) = Ch(b, i) THEN StrLessFrom(a, b, i + 1)
    ELSE Ord[Ch(a, i)] < Ord[Ch(b, i)]

\* a < b for two Python strings.
StrLess(a, b) == StrLessFrom(a, b, 1)

StrMin(S) == CHOOSE a \in S : \A b \in S : a = b \/ StrLess(a, b)

StrMax(S) == CHOOSE a \in S : \A b \in S : a = b \/ StrLess(b, a)

RECURSIVE sorted_Reversed(_)
sorted_Reversed(S) ==
    IF S = {} THEN <<>>
    ELSE <<StrMax(S)>> \o sorted_Reversed(S \ {StrMax(S)})

RECURSIVE sorted(_)
\* sorted(S) of a set of strings.
sorted(S) ==
    IF S = {} THEN <<>>
    ELSE <<StrMin(S)>> \o sorted(S \ {StrMin(S)})

WhiteSpace == {" ", "\t", "\n", "\r"}

RECURSIVE LStrip(_)
LStrip(s) ==
    IF Len(s) > 0 /\ Ch(s, 1) \in WhiteSpace
    THEN LStrip(SubSeq(s, 2, Len(s)))
    ELSE s

RECURSIVE RStrip(_)
RStrip(s) ==
    IF Len(s) > 0 /\ Ch(s, Len(s)) \in WhiteSpace
    THEN RStrip(SubSeq(s, 1, Len(s) - 1))
    ELSE s

\* s.strip()
Strip(s) == LStrip(RStrip(s))

RECURSIVE SplitLinesFrom(_, _, _)
SplitLinesFrom(s, start, i) ==
    IF i > Len(s)
    THEN IF start > Len(s) THEN <<>> ELSE <<SubSeq(s, start, Len(s))>>
    ELSE IF Ch(s, i) = "\n"
         THEN <<SubSeq(s, start, i - 1)>> \o SplitLinesFrom(s, i + 1, i + 1)
         ELSE SplitLinesFrom(s, start, i + 1)

\* for line in f: the lines of a text, without their newline; a last line
\* that no newline ends is a line too.
SplitLines(s) == SplitLinesFrom(s, 1, 1)

Range(q) == {q[i] : i \in 1..Len(q)}

Digits == "0123456789"

RECURSIVE IntStr(_)
\* str(n) of a natural number, as an f-string formats it.
IntStr(n) ==
    IF n < 10 THEN Ch(Digits, n + 1)
    ELSE IntStr(n \div 10) \o Ch(Digits, (n % 10) + 1)

RECURSIVE JoinLines(_)
\* The text of the lines q, each ended by a newline.
JoinLines(q) ==
    IF q = <<>> THEN "" ELSE Head(q) \o "\n" \o JoinLines(Tail(q))

----------------------------------------------------------------------------
(* Bounds and program constants *)

\* Largest retry count the fetcher is called with.
MaxRetries == 2

\* Longest content of the output file before the first write.
MaxFileLen == 2

\* Most calls of write_results_txt in one behaviour of SpecTxt.
MaxWrites == 2

DEFAULT_TIMEOUT == 10

\* Length to which fetch_url cuts the text of an exception.
ErrorTextLimit == 100

\* The retry counts argparse lets through (type=int, no range check).
RetriesDomain == (-1)..MaxRetries

----------------------------------------------------------------------------
(* fetch_url *)

Body1 == "a=\"https://a.io/p?q=1\" b=\"https://api.a.io/v.js\""

\* An exception text longer than the limit fetch_url cuts it to.
LongMsg ==
    LET ten == "0123456789" IN
    ten \o ten \o ten \o ten \o ten \o ten \o ten \o ten \o ten \o ten \o ten

Messages == {"reset", LongMsg}

\* What one requests.get call can end in: a response, or an exception.
Responses ==
    [kind : {"response"}, status_code : {200, 404, 500},
     text : {"", Body1}, msg : {""}]

Exceptions ==
    [kind : {"Timeout"}, status_code : {0}, text : {""}, msg : {""}]
    \cup [kind : {"SSLError", "ConnectionError", "RequestException"},
          status_code : {0}, text : {""}, msg : Messages]

Outcomes == Responses \cup Exceptions

\* response.raise_for_status() raises HTTPError.
RaisesHTTPError(o) ==
    o.kind = "response" /\ o.status_code >= 400 /\ o.status_code < 600

IsTransient(o) == o.kind # "response"

\* The text an except clause stores in last_error.
ErrorText(o, timeout) ==
    CASE o.kind = "Timeout" ->
            "Timeout after " \o IntStr(timeout) \o "s"
      [] o.kind = "SSLError" ->
            "SSL error: " \o Take(o.msg, ErrorTextLimit)
      [] o.kind = "ConnectionError" ->
            "Connection error: " \o Take(o.msg, ErrorTextLimit)
      [] o.kind = "response" ->
            "HTTP " \o IntStr(o.status_code)
      [] OTHER ->
            "Request failed: " \o Take(o.msg, ErrorTextLimit)

LoopNext_OneMore(f) ==
    IF f.attempt <= f.retries + 1
    THEN [f EXCEPT !.pc = "loop"]
    ELSE [f EXCEPT !.pc = "returned",
                   !.ret = <<None, None, f.last_error>>]

\* for attempt in range(retries + 1): the next iteration, or the return
\* after the loop.
LoopNext(f) ==
    IF f.attempt < f.retries + 1
    THEN [f EXCEPT !.pc = "loop"]
    ELSE [f EXCEPT !.pc = "returned",
                   !.ret = <<None, None, f.last_error>>]

\* The frame of a call of fetch_url at the head of its loop.  log is the
\* sequence of calls it made (requests.get, time.sleep(1)), outs what each
\* request ended in.
FetchEnter(retries, timeout) ==
    LoopNext([retries |-> retries, timeout |-> timeout, attempt |-> 0,
              last_error |-> None, pc |-> "loop",
              ret |-> <<None, None, None>>, log |-> <<>>, outs |-> <<>>])

ReturnSuccess_LeakError(f, o) ==
    [f EXCEPT !.pc = "returned",
              !.ret = <<Some(o.text), Some(o.status_code), f.last_error>>]

\* return response.text, response.status_code, None
ReturnSuccess(f, o) ==
    [f EXCEPT !.pc = "returned",
              !.ret = <<Some(o.text), Some(o.status_code), None>>]

Backoff_Always(f) == [f EXCEPT !.log = Append(@, "sleep(1)")]

\* if attempt < retries: time.sleep(1)
Backoff(f) ==
    IF f.attempt < f.retries
    THEN [f EXCEPT !.log = Append(@, "sleep(1)")]
    ELSE f

\* The except clauses that only store last_error, then the backoff and the
\* step of the loop.
OnTransient(f, o) ==
    LET g == Backoff([f EXCEPT !.last_error = Some(ErrorText(o, f.timeout))])
    IN  LoopNext([g EXCEPT !.attempt = @ + 1])

OnHTTPError_Retry(f, o) == OnTransient(f, o)

\* except requests.exceptions.HTTPError
OnHTTPError(f, o) ==
    LET err == Some(ErrorText(o, f.timeout)) IN
    [f EXCEPT !.pc = "returned", !.last_error = err,
              !.ret = <<None, Some(o.status_code), err>>]

\* One iteration of the loop of fetch_url, the request ending in o.
FetchStep(f, o) ==
    LET g == [f EXCEPT !.log = Append(@, "get"), !.outs = Append(@, o)] IN
    IF o.kind = "response"
    THEN IF RaisesHTTPError(o) THEN OnHTTPError(g, o) ELSE ReturnSuccess(g, o)
    ELSE OnTransient(g, o)

----------------------------------------------------------------------------
(* SpecFetch: one call of fetch_url, an iteration at a time *)

InitFetch ==
    /\ fetch \in {FetchEnter(r, DEFAULT_TIMEOUT) : r \in RetriesDomain}
    /\ outfile = [exists |-> FALSE, content |-> "", readable |-> TRUE]
    /\ call = [n |-> 0]
    /\ NoRun

FetchIterate ==
    /\ fetch.pc = "loop"
    /\ \E o \in Outcomes : fetch' = FetchStep(fetch, o)
    /\ UNCHANGED <<outfile, call, runvars>>

NextFetch == FetchIterate

SpecFetch == InitFetch /\ [][NextFetch]_vars

----------------------------------------------------------------------------
(* URL_PATTERN, normalize_url and extract_links_from_js *)

CharsOf(s) == {Ch(s, i) : i \in 1..Len(s)}

LowerLetters == "abcdefghijklmnopqrstuvwxyz"
UpperLetters == "ABCDEFGHIJKLMNOPQRSTUVWXYZ"

\* [a-zA-Z]
Letter == CharsOf(LowerLetters) \cup CharsOf(UpperLetters)
\* \d
Digit == CharsOf("0123456789")
\* [a-zA-Z0-9]
Alnum == Letter \cup Digit
\* [a-zA-Z0-9-]
AlnumHyphen == Alnum \cup {"-"}
\* [a-zA-Z0-9._~:/?#\[\]@!$&'()*+,;=%\-]
PathChar == Alnum \cup CharsOf("._~:/?#[]@!$&'()*+,;=%-")

\* The longest label of a domain, and the most digits of a port.
MaxLabelLen == 63
MaxPortDigits == 5

RECURSIVE RunEnd(_, _, _)
\* The index after the longest run of characters of class that starts at i.
RunEnd(s, i, class) ==
    IF i <= Len(s) /\ Ch(s, i) \in class THEN RunEnd(s, i + 1, class) ELSE i

\* Whether the literal lit stands in s at index i.
LitAt(s, i, lit) ==
    i + Len(lit) - 1 <= Len(s) /\ SubSeq(s, i, i + Len(lit) - 1) = lit

\* [a-zA-Z0-9](?:[a-zA-Z0-9-]{0,61}[a-zA-Z0-9])?\. at index i: the index
\* after the dot, or 0 when there is no match.
LabelDotEnd(s, i) ==
    LET e == RunEnd(s, i, AlnumHyphen) IN
    IF /\ e > i
       /\ e - i <= MaxLabelLen
       /\ Ch(s, i) \in Alnum
       /\ Ch(s, e - 1) \in Alnum
       /\ LitAt(s, e, ".")
    THEN e + 1
    ELSE 0

RECURSIVE LabelEnds(_, _)
\* The indexes after each of the labels (with their dots) that follow one
\* another from index i, the greedy (...)+ taking as many as there are.
LabelEnds(s, i) ==
    LET e == LabelDotEnd(s, i) IN
    IF e = 0 THEN <<>> ELSE <<e>> \o LabelEnds(s, e)

\* [a-zA-Z]{2,} at index i: the index after it, or 0.
TldEnd(s, i) ==
    LET e == RunEnd(s, i, Letter) IN IF e - i >= 2 THEN e ELSE 0

RECURSIVE DomainEndFrom(_, _, _)
\* The regex gives labels back one at a time until a TLD follows them.
DomainEndFrom(s, ends, k) ==
    IF k = 0 THEN 0
    ELSE IF TldEnd(s, ends[k]) # 0 THEN TldEnd(s, ends[k])
    ELSE DomainEndFrom(s, ends, k - 1)

\* The domain and TLD at index i: the index after the TLD, or 0.
DomainEnd(s, i) ==
    LET ends == LabelEnds(s, i) IN DomainEndFrom(s, ends, Len(ends))

\* (?::\d{1,5})? at index i: the index after it.
PortEnd(s, i) ==
    IF LitAt(s, i, ":")
    THEN LET e == RunEnd(s, i + 1, Digit)
             c == IF e - (i + 1) > MaxPortDigits
                  THEN i + 1 + MaxPortDigits ELSE e
         IN  IF c > i + 1 THEN c ELSE i
    ELSE i

\* (?:/[...]*)? at index i: the index after it.
PathEnd(s, i) ==
    IF LitAt(s, i, "/") THEN RunEnd(s, i + 1, PathChar) ELSE i

\* https?:// at index i: the index after it, or 0.
SchemeEnd(s, i) ==
    IF LitAt(s, i, "https://") THEN i + 8
    ELSE IF LitAt(s, i, "http://") THEN i + 7
    ELSE 0

\* URL_PATTERN at index i: the index after the match, or 0.
MatchEnd(s, i) ==
    LET a == SchemeEnd(s, i) IN
    IF a = 0 THEN 0
    ELSE LET d == DomainEnd(s, a) IN
         IF d = 0 THEN 0 ELSE PathEnd(s, PortEnd(s, d))

RECURSIVE FindAllFrom(_, _)
FindAllFrom(s, i) ==
    IF i > Len(s) THEN <<>>
    ELSE LET e == MatchEnd(s, i) IN
         IF e = 0 THEN FindAllFrom(s, i + 1)
         ELSE <<SubSeq(s, i, e - 1)>> \o FindAllFrom(s, e)

\* URL_PATTERN.findall(js_content): the matches, left to right, none
\* overlapping another.
FindAll(s) == FindAllFrom(s, 1)

\* TRAILING_CHARS: [\s'"<>);,\]\}\\]
TrailingChar == WhiteSpace \cup CharsOf("'\"<>);,]}\\")

RECURSIVE RStripChars(_, _)
\* s without the run of characters of class at its end.
RStripChars(s, class) ==
    IF Len(s) > 0 /\ Ch(s, Len(s)) \in class
    THEN RStripChars(SubSeq(s, 1, Len(s) - 1), class)
    ELSE s

RECURSIVE FindFrom(_, _, _)
FindFrom(s, lit, i) ==
    IF i + Len(lit) - 1 > Len(s) THEN 0
    ELSE IF LitAt(s, i, lit) THEN i
    ELSE FindFrom(s, lit, i + 1)

\* The index of the first occurrence of lit in s, or 0: lit in s.
Find(s, lit) == FindFrom(s, lit, 1)

normalize_url(url) ==
    LET a == RStripChars(url, TrailingChar)
        b == RStripChars(a, {"\\"})
    IN  IF Find(b, "${") # 0 THEN SubSeq(b, 1, Find(b, "${") - 1) ELSE b

\* The set extract_links_from_js builds; the list it returns holds this
\* set in the order of a Python set of strings, which is any order.
extract_links_from_js(js_content) ==
    {u \in {normalize_url(x) : x \in Range(FindAll(js_content))} :
        u # "" /\ Find(u, "://") # 0}

RECURSIVE ListsOf(_)
\* list(S): the sequences that hold each element of S once.
ListsOf(S) ==
    IF S = {} THEN {<<>>}
    ELSE UNION {{<<x>> \o l : l \in ListsOf(S \ {x})} : x \in S}

----------------------------------------------------------------------------
(* urlparse, get_url_extension, get_base_domain and filter_urls *)

RECURSIVE LowerFrom(_, _)
LowerFrom(s, i) ==
    IF i > Len(s) THEN ""
    ELSE LET c == Ch(s, i)
             k == Find(UpperLetters, c)
         IN  (IF k # 0 THEN Ch(LowerLetters, k) ELSE c) \o LowerFrom(s, i + 1)

\* s.lower()
Lower(s) == LowerFrom(s, 1)

\* s[i:]
Drop(s, i) == SubSeq(s, i + 1, Len(s))

RECURSIVE FindAnyFrom(_, _, _)
\* The index of the first character of s, from i on, that is in class, or
\* Len(s) + 1.
FindAnyFrom(s, class, i) ==
    IF i > Len(s) \/ Ch(s, i) \in class THEN i
    ELSE FindAnyFrom(s, class, i + 1)

RECURSIVE RFind(_, _)
\* The index of the last occurrence of the character c in s, or 0.
RFind(s, c) ==
    IF Len(s) = 0 THEN 0
    ELSE IF Ch(s, Len(s)) = c THEN Len(s)
    ELSE RFind(SubSeq(s, 1, Len(s) - 1), c)

\* The characters of a URL scheme after its first letter.
SchemeChar == Alnum \cup CharsOf("+-.")

\* _splitparams: the path without the ;parameters of its last segment.
SplitParams(path) ==
    LET slash == RFind(path, "/")
        semi == FindFrom(path, ";", IF slash = 0 THEN 1 ELSE slash)
    IN  IF semi = 0 THEN path ELSE SubSeq(path, 1, semi - 1)

\* urlparse(url): the scheme, the netloc and the path.
urlparse(url) ==
    LET colon == Find(url, ":")
        hasScheme ==
            /\ colon > 1
            /\ Ch(url, 1) \in Letter
            /\ \A i \in 1..(colon - 1) : Ch(url, i) \in SchemeChar
        scheme == IF hasScheme THEN Lower(SubSeq(url, 1, colon - 1)) ELSE ""
        rest == IF hasScheme THEN Drop(url, colon) ELSE url
        hasNetloc == LitAt(rest, 1, "//")
        netlocEnd == IF hasNetloc THEN FindAnyFrom(rest, {"/", "?", "#"}, 3)
                     ELSE 1
        netloc == IF hasNetloc THEN SubSeq(rest, 3, netlocEnd - 1) ELSE ""
        tail == Drop(rest, netlocEnd - 1)
        noFragment == SubSeq(tail, 1, FindAnyFrom(tail, {"#"}, 1) - 1)
        noQuery == SubSeq(noFragment, 1, FindAnyFrom(noFragment, {"?"}, 1) - 1)
    IN  [scheme |-> scheme, netloc |-> netloc, path |-> SplitParams(noQuery)]

get_url_extension(url) ==
    LET path == urlparse(url).path IN
    IF Find(path, ".") # 0
    THEN Lower(Drop(path, RFind(path, ".")))
    ELSE ""

RECURSIVE Split(_, _)
\* s.split(sep) for a separator of one character.
Split(s, sep) ==
    LET i == Find(s, sep) IN
    IF i = 0 THEN <<s>>
    ELSE <<SubSeq(s, 1, i - 1)>> \o Split(Drop(s, i), sep)

RECURSIVE Join(_, _)
\* sep.join(parts)
Join(parts, sep) ==
    IF Len(parts) = 0 THEN ""
    ELSE IF Len(parts) = 1 THEN parts[1]
    ELSE parts[1] \o sep \o Join(Tail(parts), sep)

\* parts[-n:]
LastN(parts, n) == SubSeq(parts, Len(parts) - n + 1, Len(parts))

\* The second-level labels under which get_base_domain keeps three labels.
ShortTlds == {"co", "com", "org", "net", "gov", "edu"}

get_base_domain(netloc) ==
    LET parts == Split(netloc, ".") IN
    IF Len(parts) >= 2
    THEN IF Len(parts) >= 3 /\ parts[Len(parts) - 1] \in ShortTlds
         THEN Join(LastN(parts, 3), ".")
         ELSE Join(LastN(parts, 2), ".")
    ELSE netloc

\* s.endswith(suffix)
EndsWith(s, suffix) ==
    Len(suffix) <= Len(s) /\ Drop(s, Len(s) - Len(suffix)) = suffix

InScope_AnyHost(url, scope, include_subdomains) == TRUE

\* The scope check of filter_urls.
InScope(url, scope, include_subdomains) ==
    LET netloc == Lower(urlparse(url).netloc)
        base_scope == IF include_subdomains THEN get_base_domain(scope)
                      ELSE scope
    IN  IF include_subdomains
        THEN netloc = base_scope \/ EndsWith(netloc, "." \o base_scope)
        ELSE netloc = Lower(scope)

filter_urls(urls, scope, contain_equals, js_json_only, include_subdomains) ==
    LET Keep(url) ==
            /\ InScope(url, scope, include_subdomains)
            /\ contain_equals => Find(url, "=") # 0
            /\ js_json_only => get_url_extension(url) \in {"js", "json"}
    IN  SelectSeq(urls, Keep)

----------------------------------------------------------------------------
(* ExtractionResult and write_results_txt *)

\* An ExtractionResult as process_single_url fills it.
ExtractionResult(source_url, extracted_urls, error, status_code) ==
    [source_url |-> source_url, extracted_urls |-> extracted_urls,
     error |-> error, status_code |-> status_code]

\* No file at the output path.
AbsentFile == [exists |-> FALSE, content |-> "", readable |-> TRUE]

\* for result in results: all_urls.update(result.extracted_urls)
AllUrls(rs) ==
    UNION {Range(rs[i].extracted_urls) : i \in 1..Len(rs)}

\* The set read back from the output file; an absent file and one that
\* cannot be read give the empty set.
ExistingUrls(file) ==
    IF file.exists /\ file.readable
    THEN {Strip(l) : l \in Range(SplitLines(file.content))} \ {""}
    ELSE {}

\* new_urls
NewUrls(rs, file, deduplicate) ==
    IF deduplicate
    THEN AllUrls(rs) \ ExistingUrls(file)
    ELSE AllUrls(rs)

\* open(output_file, 'a'): the file as it is, created empty when absent.
OpenAppend(file) ==
    IF file.exists THEN file
    ELSE [exists |-> TRUE, content |-> "", readable |-> TRUE]

\* f.write(url + '\n') on a file opened for appending.
WriteLine(file, url) ==
    [file EXCEPT !.content = @ \o url \o "\n"]

RECURSIVE WriteLines(_, _)
\* for url in sorted(new_urls): f.write(url + '\n')
WriteLines(file, urls) ==
    IF urls = <<>> THEN file
    ELSE WriteLines(WriteLine(file, Head(urls)), Tail(urls))

\* write_results_txt: the file it leaves, the count it returns and the URLs
\* it wrote, in the order it wrote them.
write_results_txt(rs, file, deduplicate) ==
    LET new_urls == NewUrls(rs, file, deduplicate) IN
    IF new_urls # {}
    THEN [file |-> WriteLines(OpenAppend(file), sorted(new_urls)),
          ret |-> Cardinality(new_urls), written |-> sorted(new_urls)]
    ELSE [file |-> file, ret |-> 0, written |-> <<>>]

----------------------------------------------------------------------------
(* process_single_url *)

\* bool(x) of an Optional[str]: neither None nor the empty string.
Truthy(opt) == opt # None /\ opt[1] # ""

RECURSIVE SeqsOfLen(_, _)
\* The sequences of n elements of S.
SeqsOfLen(S, n) ==
    IF n <= 0 THEN {<<>>}
    ELSE {<<x>> \o q : x \in S, q \in SeqsOfLen(S, n - 1)}

RECURSIVE FetchRun(_, _)
\* The loop of fetch_url run to its return, the requests ending in outs.
FetchRun(f, outs) ==
    IF f.pc = "returned" \/ outs = <<>> THEN f
    ELSE FetchRun(FetchStep(f, Head(outs)), Tail(outs))

\* What the requests of a run end in.
RunOutcomes ==
    {o \in Outcomes :
        \/ o.kind = "response" /\ o.status_code = 200
        \/ o.kind = "response" /\ o.status_code = 404 /\ o.text = ""
        \/ o.kind = "Timeout"
        \/ o.kind = "ConnectionError" /\ o.msg = "reset"}

\* The (content, status_code, error) a call of fetch_url can return.
fetch_url(retries, timeout) ==
    {FetchRun(FetchEnter(retries, timeout), outs).ret :
        outs \in SeqsOfLen(RunOutcomes, retries + 1)}

\* What a call of process_single_url ends in: it returns result, or it
\* raises.
Returns(result) == [raised |-> FALSE, result |-> result]

Raises(result) == [raised |-> TRUE, result |-> result]

OnFetchError_Raises(js_url, status_code, error) ==
    Raises(ExtractionResult(js_url, <<>>, None, status_code))

OnFetchError_DropsStatus(js_url, status_code, error) ==
    Returns(ExtractionResult(js_url, <<>>, error, None))

\* if error: result.error = error; return result
OnFetchError(js_url, status_code, error) ==
    Returns(ExtractionResult(js_url, <<>>, error, status_code))

OnEmptyContent_Succeeds(js_url, status_code) ==
    Returns(ExtractionResult(js_url, <<>>, None, status_code))

\* if not content: result.error = "Empty response"; return result
OnEmptyContent(js_url, status_code) ==
    Returns(ExtractionResult(js_url, <<>>, Some("Empty response"),
                             status_code))

\* process_single_url after its call of fetch_url returned ret: what it
\* can end in, one outcome for each order of the extracted set.
process_single_url(js_url, cfg, ret) ==
    LET content == ret[1]
        status_code == ret[2]
        error == ret[3]
    IN  IF Truthy(error)
        THEN {OnFetchError(js_url, status_code, error)}
        ELSE IF ~Truthy(content)
        THEN {OnEmptyContent(js_url, status_code)}
        ELSE {Returns(ExtractionResult(
                  js_url,
                  filter_urls(urls, urlparse(js_url).netloc,
                              cfg.contain_equals, cfg.js_json_only,
                              cfg.include_subdomains),
                  None, status_code)) :
                urls \in ListsOf(extract_links_from_js(content[1]))}

----------------------------------------------------------------------------
(* write_results_json *)

Sum_First(q) == IF q = <<>> THEN 0 ELSE Head(q)

RECURSIVE Sum(_)
\* sum(q) of a list of numbers.
Sum(q) == IF q = <<>> THEN 0 ELSE Head(q) + Sum(Tail(q))

\* The dictionary write_results_json builds; a result's "error" key is
\* there only when the result has an error.
output_data(rs) ==
    [total_sources |-> Len(rs),
     successful |-> Cardinality({i \in 1..Len(rs) :
                                    ~Truthy(rs[i].error)}),
     failed |-> Cardinality({i \in 1..Len(rs) :
                                Truthy(rs[i].error)}),
     total_urls_found |-> Sum([i \in 1..Len(rs) |->
                                  Len(rs[i].extracted_urls)]),
     results |-> [i \in 1..Len(rs) |->
                    [source |-> rs[i].source_url,
                     status_code |-> rs[i].status_code,
                     urls_found |-> Len(rs[i].extracted_urls),
                     urls |-> rs[i].extracted_urls,
                     error |-> IF Truthy(rs[i].error)
                               THEN rs[i].error ELSE None]],
     unique_urls |-> sorted(AllUrls(rs)),
     unique_url_count |-> Cardinality(AllUrls(rs))]

\* The newline and indentation json.dump(indent=2) puts before an item
\* at the given depth.
NewlineIndent(level) ==
    "\n" \o Join([i \in 1..level |-> "  "], "")

\* The characters of s from the i-th on, escaped as json.dump escapes them.
JsonEscapeFrom(s, i) ==
    LET escaped[k \in i..(Len(s) + 1)] ==
            IF k > Len(s) THEN ""
            ELSE LET c == Ch(s, k)
                     e == CASE c = "\"" -> "\\\""
                            [] c = "\\" -> "\\\\"
                            [] c = "\n" -> "\\n"
                            [] c = "\r" -> "\\r"
                            [] c = "\t" -> "\\t"
                            [] OTHER -> c
                 IN  e \o escaped[k + 1]
    IN  escaped[i]

\* A str as json.dump writes it.
JsonString(s) ==
    CHOOSE text \in {"\"" \o JsonEscapeFrom(v, 1) \o "\"" : v \in {s}} : TRUE

\* An Optional[int] as json.dump writes it.
JsonOptInt(opt) == IF opt = None THEN "null" ELSE IntStr(opt[1])

\* A list of already rendered items at the given depth.
JsonList(items, level) ==
    CHOOSE text \in
        {IF its = <<>> THEN "[]"
         ELSE "[" \o NewlineIndent(level + 1)
              \o Join(its, "," \o NewlineIndent(level + 1))
              \o NewlineIndent(level) \o "]" : its \in {items}} : TRUE

\* A dictionary of already rendered members at the given depth.
JsonDict(members, level) ==
    CHOOSE text \in
        {"{" \o NewlineIndent(level + 1)
         \o Join(ms, "," \o NewlineIndent(level + 1))
         \o NewlineIndent(level) \o "}" : ms \in {members}} : TRUE

JsonStringList(l, level) ==
    JsonList([i \in 1..Len(l) |-> JsonString(l[i])], level)

\* A result_dict at the given depth.
JsonResult(d, level) ==
    JsonDict(<<"\"source\": " \o JsonString(d.source),
               "\"status_code\": " \o JsonOptInt(d.status_code),
               "\"urls_found\": " \o IntStr(d.urls_found),
               "\"urls\": " \o JsonStringList(d.urls, level + 1)>>
             \o (IF d.error = None THEN <<>>
                 ELSE <<"\"error\": " \o JsonString(d.error[1])>>),
             level)

\* What json.dump(output_data, f, indent=2) writes, in three of the
\* pieces it hands to f.write one after the other: the counts, the
\* results, and the unique URLs with the closing brace.  (json.dump
\* writes smaller pieces still; each boundary here is one of its own.)
JsonChunks(data) ==
    <<"{" \o NewlineIndent(1)
      \o "\"total_sources\": " \o IntStr(data.total_sources)
      \o "," \o NewlineIndent(1)
      \o "\"successful\": " \o IntStr(data.successful)
      \o "," \o NewlineIndent(1)
      \o "\"failed\": " \o IntStr(data.failed)
      \o "," \o NewlineIndent(1)
      \o "\"total_urls_found\": " \o IntStr(data.total_urls_found),
      "," \o NewlineIndent(1)
      \o "\"results\": "
      \o JsonList([i \in 1..Len(data.results) |->
                      JsonResult(data.results[i], 2)], 1),
      "," \o NewlineIndent(1)
      \o "\"unique_urls\": " \o JsonStringList(data.unique_urls, 1)
      \o "," \o NewlineIndent(1)
      \o "\"unique_url_count\": " \o IntStr(data.unique_url_count)
      \o NewlineIndent(0) \o "}">>

\* open(output_file, 'w'): the file emptied, created when absent.
OpenWrite(file) ==
    [exists |-> TRUE, content |-> "",
     readable |-> IF file.exists THEN file.readable ELSE TRUE]

\* f.write(chunk)
WriteChunk(file, chunk) ==
    [file EXCEPT !.content = @ \o chunk]

\* write_results_json: the file it leaves and the count it returns.
write_results_json(rs, file) ==
    [file |-> CHOOSE f \in
                 {WriteChunk(WriteChunk(WriteChunk(OpenWrite(file),
                                                   chunks[1]),
                                        chunks[2]), chunks[3]) :
                     chunks \in {JsonChunks(data) :
                                    data \in {output_data(rs)}}} : TRUE,
     ret |-> Cardinality(AllUrls(rs))]

----------------------------------------------------------------------------
(* main, run_extraction and signal_handler: one run of the program *)

\* The most sources in the input file, and the most worker threads.
MaxSources == 2
MaxThreads == 2

\* --retries of the runs: no attempt at all, and one retry.
RunRetries == {-1, 1}

\* The sources, and the line an earlier run left in the output file.
Src1 == "https://a.io/s.js"
Src2 == "https://API.a.io/t.js"
OldLine == "https://a.io/old"

\* The sources of the input.
Sources == {Src1, Src2}

\* The source lists of the input files.
InputLists == UNION {SeqsOfLen(Sources, n) : n \in 0..MaxSources}

\* The input files: a source a line, the same with blanks around and
\* between the lines and no newline at the end, and a list that cannot
\* be read.
InputFiles ==
    {[readable |-> TRUE, content |-> JoinLines(l)] : l \in InputLists}
    \cup {[readable |-> TRUE,
           content |-> " " \o Src2 \o " \n\n" \o Src1],
          [readable |-> FALSE, content |-> JoinLines(<<Src1, Src2>>)]}

\* The output file before the run: none, and the line of an earlier run.
OutputFiles ==
    {AbsentFile,
     [exists |-> TRUE, content |-> OldLine \o "\n", readable |-> TRUE]}

\* The configurations main builds from the command line.
Configs ==
    [single_url : {None, Some(Src1)},
     input_file : {None, Some("urls.txt")},
     threads : 0..MaxThreads,
     retries : RunRetries,
     timeout : {DEFAULT_TIMEOUT},
     output_format : {"txt", "json"},
     contain_equals : {FALSE},
     js_json_only : {FALSE},
     include_subdomains : BOOLEAN]

\* What a call of process_single_url can end in, by configuration and
\* source: its call of fetch_url returns, and it goes on from there
\* (a table, worked out once).
TaskOutcomes ==
    [p \in Configs \X Sources |->
        UNION {{[ret |-> ret, out |-> out] :
                   out \in process_single_url(p[2], p[1], ret)} :
                  ret \in fetch_url(p[1].retries, p[1].timeout)}] @@ <<>>

NoExit == [code |-> -1, why |-> "running"]

Exit(code, why) == [code |-> code, why |-> why]

\* A call of process_single_url, in the pool a future: "pending" in the
\* queue, "running" on a worker, "done" with what its fetch_url returned
\* and what it ended in, and collected once its result is taken.
Future(src) ==
    [src |-> src, state |-> "pending", ret |-> None, out |-> None,
     collected |-> FALSE]

Unfinished(fs) == {k \in 1..Len(fs) : fs[k].state # "done"}

Init ==
    /\ config \in Configs
    /\ infile \in InputFiles
    /\ outfile \in OutputFiles
    /\ origin = outfile
    /\ pc = "main"
    /\ js_urls = <<>>
    /\ tasks = <<>>
    /\ results = <<>>
    /\ wq = <<>>
    /\ exit = NoExit
    /\ fetch = FetchEnter(0, DEFAULT_TIMEOUT)
    /\ call = [n |-> 0]

\* main, lines 679-684: parser.error exits with status 2.
Validate ==
    /\ pc = "main"
    /\ IF Truthy(config.single_url) = Truthy(config.input_file)
       THEN pc' = "exited" /\ exit' = Exit(2, "usage")
       ELSE pc' = "run_extraction" /\ UNCHANGED exit
    /\ UNCHANGED <<fetch, outfile, call, config, infile, js_urls, tasks,
                   results, wq, origin>>

CollectedUrls_ReadsAnyway(cfg, file) ==
    IF Truthy(cfg.single_url) THEN Some(<<cfg.single_url[1]>>)
    ELSE IF Truthy(cfg.input_file)
    THEN Some(SelectSeq([i \in 1..Len(SplitLines(file.content)) |->
                            Strip(SplitLines(file.content)[i])],
                        LAMBDA l : l # ""))
    ELSE Some(<<>>)

\* js_urls as run_extraction collects them; None when the input file
\* cannot be read.
CollectedUrls(cfg, file) ==
    IF Truthy(cfg.single_url) THEN Some(<<cfg.single_url[1]>>)
    ELSE IF Truthy(cfg.input_file)
    THEN IF file.readable
         THEN Some(SelectSeq([i \in 1..Len(SplitLines(file.content)) |->
                                 Strip(SplitLines(file.content)[i])],
                             LAMBDA l : l # ""))
         ELSE None
    ELSE Some(<<>>)

UsePool_ManySources(urls, threads) == Len(urls) > 1

\* if len(js_urls) > 1 and config.threads > 1: the pool, else the loop.
UsePool(urls, threads) == Len(urls) > 1 /\ threads > 1

\* run_extraction, lines 470-491: with nothing to process it returns []
\* and main returns 1.
CollectUrls ==
    /\ pc = "run_extraction"
    /\ \E got \in {CollectedUrls(config, infile)} :
       IF got = None \/ got = Some(<<>>)
       THEN /\ pc' = "exited"
            /\ exit' = Exit(1, "return")
            /\ UNCHANGED js_urls
       ELSE /\ js_urls' = got[1]
            /\ pc' = IF UsePool(got[1], config.threads)
                     THEN "submit" ELSE "sequential"
            /\ UNCHANGED exit
    /\ UNCHANGED <<fetch, outfile, call, config, infile, tasks, results,
                   wq, origin>>

\* executor.submit(process_single_url, url, config, logger)
Submit ==
    /\ pc = "submit"
    /\ tasks' = Append(tasks, Future(js_urls[Len(tasks) + 1]))
    /\ pc' = IF Len(tasks) + 1 = Len(js_urls) THEN "collect" ELSE "submit"
    /\ UNCHANGED <<fetch, outfile, call, config, infile, js_urls, results,
                   wq, exit, origin>>

FreeWorker_OnlyOne(fs, threads) ==
    \A j \in 1..Len(fs) : fs[j].state # "running"

\* ThreadPoolExecutor(max_workers=config.threads): a worker is free.
FreeWorker(fs, threads) ==
    Cardinality({j \in 1..Len(fs) : fs[j].state = "running"}) < threads

\* A worker takes the oldest queued future; there are at most
\* config.threads workers.
TaskStart ==
    /\ pc \in {"submit", "collect", "shutdown"}
    /\ \E k \in 1..Len(tasks) :
          /\ tasks[k].state = "pending"
          /\ \A j \in 1..(k - 1) : tasks[j].state # "pending"
          /\ FreeWorker(tasks, config.threads)
          /\ tasks' = [tasks EXCEPT ![k].state = "running"]
    /\ UNCHANGED <<fetch, outfile, call, config, infile, pc, js_urls,
                   results, wq, exit, origin>>

\* The call of process_single_url of the k-th future returns (or raises).
TaskFinishOf(k) ==
    /\ pc \in {"submit", "collect", "shutdown"}
    /\ k \in 1..Len(tasks)
    /\ tasks[k].state = "running"
    /\ \E o \in TaskOutcomes[<<config, tasks[k].src>>] :
          tasks' = [tasks EXCEPT ![k].state = "done",
                                 ![k].ret = Some(o.ret),
                                 ![k].out = Some(o.out)]
    /\ UNCHANGED <<fetch, outfile, call, config, infile, pc, js_urls,
                   results, wq, exit, origin>>

\* A worker's call of process_single_url returns (or raises).
TaskFinish == \E k \in 1..MaxSources : TaskFinishOf(k)

AppendResult_BySource(rs, result) ==
    IF \E i \in 1..Len(rs) : rs[i].source_url = result.source_url
    THEN rs ELSE Append(rs, result)

\* results.append(result)
AppendResult(rs, result) == Append(rs, result)

LoopDone_AfterFirst(fs, k) == TRUE

\* as_completed(futures) is exhausted once every future has been handed
\* out: the k-th is the last.
LoopDone(fs, k) == \A j \in 1..Len(fs) : j = k \/ fs[j].collected

\* One turn of "for future in as_completed(futures)": any finished
\* future not handed out yet; future.result() raises what the call
\* raised.  After the last one the executor has nothing left to wait for.
Collect ==
    /\ pc = "collect"
    /\ \E k \in 1..Len(tasks) :
          /\ tasks[k].state = "done"
          /\ ~tasks[k].collected
          /\ tasks' = [tasks EXCEPT ![k].collected = TRUE]
          /\ IF tasks[k].out[1].raised
             THEN /\ pc' = "shutdown"
                  /\ exit' = Exit(1, "exception")
                  /\ UNCHANGED results
             ELSE /\ results' = AppendResult(results, tasks[k].out[1].result)
                  /\ pc' = IF LoopDone(tasks, k)
                           THEN "write" ELSE "collect"
                  /\ UNCHANGED exit
    /\ UNCHANGED <<fetch, outfile, call, config, infile, js_urls, wq,
                   origin>>

\* One turn of the sequential loop.
Sequential ==
    /\ pc = "sequential"
    /\ LET src == js_urls[Len(tasks) + 1] IN
       \E o \in TaskOutcomes[<<config, src>>] :
          /\ tasks' = Append(tasks, [Future(src) EXCEPT
                                        !.state = "done",
                                        !.ret = Some(o.ret),
                                        !.out = Some(o.out),
                                        !.collected = ~o.out.raised])
          /\ IF o.out.raised
             THEN /\ pc' = "exited"
                  /\ exit' = Exit(1, "exception")
                  /\ UNCHANGED results
             ELSE /\ results' = AppendResult(results, o.out.result)
                  /\ pc' = IF Len(tasks) + 1 = Len(js_urls)
                           THEN "write" ELSE "sequential"
                  /\ UNCHANGED exit
    /\ UNCHANGED <<fetch, outfile, call, config, infile, js_urls, wq,
                   origin>>

\* The writer up to its open(): what it is going to write, piece by
\* piece.  The text writer opens the file only when it has new URLs.
WriteOpen ==
    /\ pc = "write"
    /\ IF config.output_format = "json"
       THEN /\ outfile' = OpenWrite(outfile)
            /\ \E data \in {output_data(results)} : wq' = JsonChunks(data)
            /\ pc' = "dump"
       ELSE LET new_urls == NewUrls(results, outfile, TRUE) IN
            IF new_urls # {}
            THEN /\ outfile' = OpenAppend(outfile)
                 /\ wq' = sorted(new_urls)
                 /\ pc' = "lines"
            ELSE /\ pc' = "summary"
                 /\ UNCHANGED <<outfile, wq>>
    /\ UNCHANGED <<fetch, call, config, infile, js_urls, tasks, results,
                   exit, origin>>

\* The writer's open() for writing raises OSError (no permission, no such
\* directory): nothing catches it before "except Exception" at the
\* bottom of the script, which exits with status 1.  The file is as it
\* was.
WriteOpenFails ==
    /\ pc = "write"
    /\ \/ config.output_format = "json"
       \/ NewUrls(results, outfile, TRUE) # {}
    /\ pc' = "exited"
    /\ exit' = Exit(1, "write_error")
    /\ UNCHANGED <<fetch, outfile, call, config, infile, js_urls, tasks,
                   results, wq, origin>>

\* One f.write(url + '\n') of write_results_txt; the file is closed
\* after the last.
TxtWrite ==
    /\ pc = "lines"
    /\ outfile' = WriteLine(outfile, Head(wq))
    /\ wq' = Tail(wq)
    /\ pc' = IF Tail(wq) = <<>> THEN "summary" ELSE "lines"
    /\ UNCHANGED <<fetch, call, config, infile, js_urls, tasks, results,
                   exit, origin>>

\* One f.write of json.dump; the file is closed after the last.
JsonWrite ==
    /\ pc = "dump"
    /\ outfile' = WriteChunk(outfile, Head(wq))
    /\ wq' = Tail(wq)
    /\ pc' = IF Tail(wq) = <<>> THEN "summary" ELSE "dump"
    /\ UNCHANGED <<fetch, call, config, infile, js_urls, tasks, results,
                   exit, origin>>

ExitStatus_AnyResult(rs) == IF rs # <<>> THEN 0 ELSE 1

\* return 0 if successful > 0 else 1
ExitStatus(rs) ==
    IF \E i \in 1..Len(rs) : ~Truthy(rs[i].error) THEN 0 ELSE 1

\* main, lines 727-738.
Summary ==
    /\ pc = "summary"
    /\ pc' = "exited"
    /\ exit' = Exit(ExitStatus(results), "return")
    /\ UNCHANGED <<fetch, outfile, call, config, infile, js_urls, tasks,
                   results, wq, origin>>

\* SIGINT: signal_handler calls sys.exit(130) in the main thread.  The
\* SystemExit leaves every "with" block on its way out: an open output
\* file is closed with what was written to it, and the executor waits for
\* the futures it still has.
Sigint ==
    /\ pc \notin {"exited", "shutdown"}
    /\ exit' = Exit(130, "sigint")
    /\ pc' = IF pc \in {"submit", "collect"} THEN "shutdown" ELSE "exited"
    /\ UNCHANGED <<fetch, outfile, call, config, infile, js_urls, tasks,
                   results, wq, origin>>

\* ThreadPoolExecutor.__exit__: shutdown(wait=True) returns once every
\* future has run, and the exception goes on.
Shutdown ==
    /\ pc = "shutdown"
    /\ Unfinished(tasks) = {}
    /\ pc' = "exited"
    /\ UNCHANGED <<fetch, outfile, call, config, infile, js_urls, tasks,
                   results, wq, exit, origin>>

Next ==
    \/ Validate
    \/ CollectUrls
    \/ Submit
    \/ TaskStart
    \/ TaskFinish
    \/ Collect
    \/ Sequential
    \/ WriteOpen
    \/ WriteOpenFails
    \/ TxtWrite
    \/ JsonWrite
    \/ Summary
    \/ Sigint
    \/ Shutdown

Spec == Init /\ [][Next]_vars

----------------------------------------------------------------------------
(* SpecTxt: text-mode writes to one output path, one after the other *)

\* The characters of the output file before the first write.
FileChars == {"a", "b", " ", "\n"}

RECURSIVE StringsUpTo(_)
\* The strings over FileChars of length at most n.
StringsUpTo(n) ==
    IF n = 0 THEN {""}
    ELSE LET S == StringsUpTo(n - 1) IN
         S \cup {t \o c : t \in S, c \in FileChars}

\* The lists of extracted URLs of the results handed to the writer.
TxtUrlLists == {<<>>, <<"a">>, <<"b", "a">>, <<"ab">>}

TxtResults ==
    {ExtractionResult("s", u, None, Some(200)) : u \in TxtUrlLists}
    \cup {ExtractionResult("s", <<>>, Some("HTTP 404"), Some(404))}

TxtResultLists ==
    {<<>>} \cup {<<r>> : r \in TxtResults}
    \cup {<<r1, r2>> : r1 \in TxtResults, r2 \in TxtResults}

InitTxt ==
    /\ outfile \in {AbsentFile}
          \cup [exists : {TRUE}, content : StringsUpTo(MaxFileLen),
                readable : BOOLEAN]
    /\ call = [n |-> 0, results |-> <<>>, ret |-> 0, written |-> <<>>,
               before |-> outfile, origin |-> outfile]
    /\ fetch = FetchEnter(0, DEFAULT_TIMEOUT)
    /\ NoRun

\* One call of write_results_txt, as main makes it.
WriteTxt ==
    /\ call.n < MaxWrites
    /\ \E rs \in TxtResultLists :
          LET w == write_results_txt(rs, outfile, TRUE) IN
          /\ outfile' = w.file
          /\ call' = [n |-> call.n + 1, results |-> rs, ret |-> w.ret,
                      written |-> w.written, before |-> outfile,
                      origin |-> call.origin]
    /\ UNCHANGED <<fetch, runvars>>

NextTxt == WriteTxt

SpecTxt == InitTxt /\ [][NextTxt]_vars

----------------------------------------------------------------------------
(* The fetcher's claims, under SpecFetch *)

RECURSIVE Count(_, _)
\* How many entries of the sequence s equal e.
Count(s, e) ==
    IF s = <<>> THEN 0
    ELSE (IF Head(s) = e THEN 1 ELSE 0) + Count(Tail(s), e)

\* get, sleep(1), get, ..., get: n requests with a wait between two
\* consecutive ones and none after the last.
AlternatingLog(n) ==
    [i \in 1..(2 * n - 1) |-> IF i % 2 = 1 THEN "get" ELSE "sleep(1)"]

\* C3: one call of fetch_url issues at most retries + 1 HTTP requests,
\* whatever the retry count and whatever each attempt ends in.
C3_AtMostRetriesPlusOneRequests ==
    Count(fetch.log, "get") <= fetch.retries + 1

C3_Witness ==
    /\ fetch.pc = "returned"
    /\ fetch.retries >= 1
    /\ Count(fetch.log, "get") = fetch.retries + 1

\* C4: an attempt that receives an HTTP error status (4xx/5xx) is the last
\* one: fetch_url has returned no content, that status code and the error
\* "HTTP <status>", and the last call it made is the request of that
\* attempt (no backoff wait, no further request).
C4_HTTPErrorReturnsAtOnce ==
    \A i \in 1..Len(fetch.outs) :
        RaisesHTTPError(fetch.outs[i]) =>
            /\ i = Len(fetch.outs)
            /\ fetch.pc = "returned"
            /\ fetch.ret[1] = None
            /\ fetch.ret[2] = Some(fetch.outs[i].status_code)
            /\ fetch.ret[3] \in {Some("HTTP 404"), Some("HTTP 500")}
            /\ fetch.ret[3] = Some("HTTP " \o IntStr(fetch.outs[i].status_code))
            /\ fetch.log = AlternatingLog(i)

C4_Witness ==
    /\ Len(fetch.outs) = 2
    /\ fetch.retries = 2
    /\ IsTransient(fetch.outs[1])
    /\ RaisesHTTPError(fetch.outs[2])
    /\ fetch.pc = "returned"

\* The first retries attempts failed with a transient error and the last
\* one, the (retries+1)-th, got a response that is no HTTP error.
FailedThenSucceeded ==
    /\ fetch.pc = "returned"
    /\ Len(fetch.outs) >= 1
    /\ Len(fetch.outs) = fetch.retries + 1
    /\ \A i \in 1..fetch.retries : IsTransient(fetch.outs[i])
    /\ fetch.outs[Len(fetch.outs)].kind = "response"
    /\ ~RaisesHTTPError(fetch.outs[Len(fetch.outs)])

\* C5: when the first retries attempts time out (or fail with another
\* transient error) and the final attempt succeeds, fetch_url returns the
\* body and the status code with no error: the error of an earlier attempt
\* does not leak into the return.
C5_SuccessAfterRetriesHasNoError ==
    FailedThenSucceeded =>
        LET o == fetch.outs[Len(fetch.outs)] IN
        fetch.ret = <<Some(o.text), Some(o.status_code), None>>

C5_Witness ==
    /\ FailedThenSucceeded
    /\ fetch.retries = 2
    /\ fetch.outs[1].kind = "Timeout"
    /\ fetch.outs[2].kind = "Timeout"
    /\ fetch.outs[3].text = Body1
    /\ fetch.last_error # None

AllTransient == \A i \in 1..Len(fetch.outs) : IsTransient(fetch.outs[i])

\* C6: when every attempt fails with a timeout or a connection-level
\* failure, fetch_url makes exactly retries + 1 attempts, waits 1 second
\* between two consecutive attempts and not after the last, and returns no
\* content, no status code and the error of the last failed attempt.
C6_ExhaustedRetries ==
    (AllTransient /\ Len(fetch.outs) >= 1) =>
        /\ fetch.pc = "loop" => Len(fetch.outs) < fetch.retries + 1
        /\ fetch.pc = "returned" =>
            /\ Len(fetch.outs) = fetch.retries + 1
            /\ fetch.log = AlternatingLog(fetch.retries + 1)
            /\ fetch.ret =
                 <<None, None,
                   Some(ErrorText(fetch.outs[Len(fetch.outs)], fetch.timeout))>>

C6_Witness ==
    /\ AllTransient
    /\ fetch.pc = "returned"
    /\ fetch.retries = 2
    /\ fetch.outs[1].kind = "ConnectionError"
    /\ fetch.outs[3].kind = "Timeout"
    /\ fetch.ret[3] = Some("Timeout after 10s")

----------------------------------------------------------------------------
(* The text writer's claims, under SpecTxt *)

\* The lines of a file; an absent file has none.
Lines(file) == IF file.exists THEN SplitLines(file.content) ELSE <<>>

IsSortedSeq(q) ==
    \A i, j \in 1..Len(q) : i < j => (q[i] = q[j] \/ StrLess(q[i], q[j]))

StrictlyIncreasing(q) ==
    \A i, j \in 1..Len(q) : i < j => StrLess(q[i], q[j])

DupFree(q) == \A i, j \in 1..Len(q) : i # j => q[i] # q[j]

\* Every line is non-blank and has no whitespace around it.
CleanLines(q) == \A i \in 1..Len(q) : q[i] # "" /\ Strip(q[i]) = q[i]


\* C7: text-mode write is idempotent: a call of write_results_txt with the
\* results of the call before it appends nothing, leaves the file unchanged
\* and returns 0, whatever the output file held before (stated here for
\* the files that can be read).
C7_SecondWriteIsNoOp ==
    [][(/\ call.n >= 1
        /\ call'.n = call.n + 1
        /\ call'.results = call.results
        /\ outfile.readable)
       => (outfile' = outfile /\ call'.ret = 0)]_vars

\* C8: after any sequence of text-mode writes to an output path that held
\* no file before, the lines of the output file are in sorted order.
C8_FileLinesSorted ==
    (call.n >= 1 /\ ~call.origin.exists) => IsSortedSeq(Lines(outfile))

\* C8, amended: every text-mode write appends its new URLs in sorted order,
\* one per line, after the content the file had; the lines of the file as
\* a whole are sorted after a write to an absent or empty file.
C8_EachWriteAppendsSorted ==
    call.n >= 1 =>
        /\ StrictlyIncreasing(call.written)
        /\ Range(call.written) =
              AllUrls(call.results) \ ExistingUrls(call.before)
        /\ outfile.content = call.before.content \o JoinLines(call.written)
        /\ call.before.content = "" => IsSortedSeq(Lines(outfile))

C8_Witness ==
    /\ call.n = 2
    /\ ~call.origin.exists
    /\ Len(call.written) = 2
    /\ ~IsSortedSeq(Lines(outfile))

\* C9: text-mode output is append-only and duplicate-free across runs: a
\* call of write_results_txt on a duplicate-free file (stated here for a
\* readable file whose lines are non-blank and carry no whitespace around
\* them) keeps every line of the file where it was, adds as lines exactly
\* the URLs of the results that were not lines of the file, and leaves no
\* URL on two lines.
C9_AppendOnlyNoDuplicates ==
    (/\ call.n >= 1
     /\ call.before.readable
     /\ DupFree(Lines(call.before))
     /\ CleanLines(Lines(call.before)))
    => LET old == Lines(call.before)
           new == Lines(outfile)
       IN  /\ Len(new) >= Len(old)
           /\ SubSeq(new, 1, Len(old)) = old
           /\ Range(SubSeq(new, Len(old) + 1, Len(new))) =
                 AllUrls(call.results) \ Range(old)
           /\ DupFree(new)

----------------------------------------------------------------------------
(* The orchestrator's claims, under Spec *)

\* run_extraction has returned its results to main.
RunReturned ==
    \/ pc \in {"write", "lines", "dump", "summary"}
    \/ pc = "exited" /\ exit.why = "return" /\ js_urls # <<>>

\* The call for a source failed: its fetch_url returned an error, or
\* nothing to extract from.
Failed(t) == Truthy(t.ret[1][3]) \/ ~Truthy(t.ret[1][1])

\* C1: a failure of one source never stops the run.  No call of
\* process_single_url raises and the run never ends in an exception; a
\* finished call has a result for its own source that follows from its own
\* fetch alone, with the error in the error field exactly when the call
\* failed; and when run_extraction returns, in sequential and in pooled
\* mode, every source of the list has been fetched and has its own result
\* among the results.
C1_FailureNeverStopsTheRun ==
    /\ exit.why # "exception"
    /\ \A k \in 1..Len(tasks) :
          tasks[k].state = "done" =>
             LET t == tasks[k] IN
             /\ ~t.out[1].raised
             /\ [ret |-> t.ret[1], out |-> t.out[1]]
                   \in TaskOutcomes[<<config, t.src>>]
             /\ t.out[1].result.source_url = t.src
             /\ Failed(t) <=> Truthy(t.out[1].result.error)
             /\ Truthy(t.ret[1][3]) => t.out[1].result.error = t.ret[1][3]
    /\ RunReturned =>
          /\ Len(tasks) = Len(js_urls)
          /\ \A k \in 1..Len(tasks) :
                /\ tasks[k].src = js_urls[k]
                /\ tasks[k].state = "done"
                /\ \E i \in 1..Len(results) :
                      results[i] = tasks[k].out[1].result

\* A pooled run has returned with the result of a failed source followed
\* by the result of a source that succeeded.
C1_Witness ==
    /\ pc = "write"
    /\ config.threads > 1
    /\ Len(results) = 2
    /\ results[1].error = Some("HTTP 404")
    /\ results[2].error = None
    /\ results[2].extracted_urls # <<>>

\* How often x occurs in the list q.
Occurrences(q, x) == Cardinality({i \in 1..Len(q) : q[i] = x})

\* C2: run_extraction returns exactly one result for each entry of the
\* source list.  Whatever the order in which the calls finish, when it
\* returns there is one call for each entry, each call has been collected,
\* the results are the calls' results in some order (each taken once), and
\* every source occurs among the results' source_url as often as in the
\* list; until then no result has been taken twice.
C2_OneResultPerSource ==
    /\ Len(results) = Cardinality({k \in 1..Len(tasks) : tasks[k].collected})
    /\ RunReturned =>
          /\ Len(results) = Len(js_urls)
          /\ Len(tasks) = Len(js_urls)
          /\ \A k \in 1..Len(tasks) :
                tasks[k].src = js_urls[k] /\ tasks[k].collected
          /\ \E pi \in Permutations(1..Len(tasks)) :
                \A i \in 1..Len(results) :
                   results[i] = tasks[pi[i]].out[1].result
          /\ \A i \in 1..Len(js_urls) :
                Occurrences([j \in 1..Len(results) |-> results[j].source_url],
                            js_urls[i])
                   = Occurrences(js_urls, js_urls[i])

\* A pooled run has returned the results of two different sources in the
\* reverse of their order in the list.
C2_Witness ==
    /\ pc = "write"
    /\ config.threads > 1
    /\ Len(js_urls) = 2
    /\ js_urls[1] # js_urls[2]
    /\ Len(results) = 2
    /\ results[1].source_url = js_urls[2]
    /\ results[2].source_url = js_urls[1]

----------------------------------------------------------------------------
(* The interrupt's claim, under Spec *)

\* The output file a run with these results leaves when it is not
\* interrupted.
CompleteOutput ==
    IF config.output_format = "json"
    THEN write_results_json(results, origin).file
    ELSE write_results_txt(results, origin, TRUE).file

\* C10: an interrupt never leaves partial or corrupt output.  After the
\* process has exited on SIGINT the output file is as it was before the
\* run, or it holds the complete output of the run.
C10_InterruptLeavesNoPartialOutput ==
    (pc = "exited" /\ exit.why = "sigint") =>
        \/ outfile = origin
        \/ /\ js_urls # <<>>
           /\ Len(results) = Len(js_urls)
           /\ outfile = CompleteOutput

----------------------------------------------------------------------------
(* The claims on main and run_extraction as a whole, under Spec *)

\* Every source of the list has its call, every call has returned and
\* every result has been taken.
AllCollected ==
    /\ js_urls # <<>>
    /\ Len(tasks) = Len(js_urls)
    /\ \A k \in 1..Len(tasks) :
          tasks[k].state = "done" /\ tasks[k].collected

\* C11: the output file is written only after every source's call has
\* finished and its result has been collected.  No step of a run, pooled or
\* sequential, changes the output file (creating or emptying it included)
\* while a call is pending or running or a result is not yet taken.
C11_WriteOnlyAfterAllCollected ==
    [][outfile' # outfile => AllCollected]_vars

\* A pooled run of two sources has written its output.
C11_Witness ==
    /\ pc = "summary"
    /\ config.threads > 1
    /\ Len(tasks) = 2
    /\ outfile # origin

\* The process has ended, and not by an interrupt.
RunEnded == pc = "exited" /\ exit.why # "sigint"

\* The exit status is success exactly when a source has a result without
\* error.
SuccessIffSomeSourceSucceeded ==
    exit.code = 0 <=> \E i \in 1..Len(results) : results[i].error = None

ReachedOrchestrator == pc \notin {"main", "exited"}

\* Exactly one of --url and --input-file is given.
OneInputMode(cfg) == Truthy(cfg.single_url) # Truthy(cfg.input_file)

\* C13: every configuration that reaches the orchestrator satisfies the
\* configuration invariant: exactly one of single URL and list file is
\* set, the worker count is at least 1 and the retry count at least 0; a
\* command line that violates one of the three is rejected before any
\* network activity.
C13_ConfigInvariant ==
    ReachedOrchestrator =>
        /\ OneInputMode(config)
        /\ config.threads >= 1
        /\ config.retries >= 0

\* There is exactly one source, or the worker count is at most 1.
OneSourceOrOneWorker ==
    js_urls # <<>> /\ (Len(js_urls) = 1 \/ config.threads <= 1)

\* The main thread is in the block of the executor.
InPool == pc \in {"submit", "collect", "shutdown"}

\* C14: with exactly one source, or a worker count of at most 1, the
\* sources are processed one at a time in input order: no call is ever
\* pending or running beside another, the k-th call is for the k-th
\* source, each call's result is in the list before the next call starts,
\* and the results are in the order of the input.  The pool is used only
\* with more than one source and more than one worker.
C14_SequentialInOrder ==
    /\ OneSourceOrOneWorker =>
          /\ ~InPool
          /\ Len(tasks) <= Len(js_urls)
          /\ Len(results) = Len(tasks)
          /\ \A k \in 1..Len(tasks) :
                /\ tasks[k].state = "done"
                /\ tasks[k].src = js_urls[k]
                /\ results[k] = tasks[k].out[1].result
                /\ results[k].source_url = js_urls[k]
    /\ InPool => Len(js_urls) > 1 /\ config.threads > 1

\* A run with one worker has processed two different sources, a failing
\* one first, and returned their results in the order of the list.
C14_Witness ==
    /\ pc = "write"
    /\ config.threads <= 1
    /\ Len(js_urls) = 2
    /\ js_urls[1] # js_urls[2]
    /\ Len(results) = 2
    /\ results[1].error # None
    /\ results[2].error = None

----------------------------------------------------------------------------
(* SpecFair: runs over a list file under fair scheduling, one source slow *)

\* The source whose fetch may stall for any length of time.
SlowSrc == Src2

\* A run over a readable list file that names the slow source once at
\* most, with one retry and exact-host scope, the output file absent.
InitFair ==
    /\ Init
    /\ config.single_url = None
    /\ config.input_file # None
    /\ config.retries = 1
    /\ ~config.include_subdomains
    /\ infile.readable
    /\ Occurrences(CollectedUrls(config, infile)[1], SlowSrc) <= 1
    /\ outfile = AbsentFile

\* The call for a source other than the slow one returns.
FastTaskFinish ==
    \E k \in 1..MaxSources :
        /\ k <= Len(tasks)
        /\ tasks[k].src # SlowSrc
        /\ TaskFinishOf(k)

\* A step of the main thread.
MainStep ==
    \/ Validate
    \/ CollectUrls
    \/ Submit
    \/ Collect
    \/ Sequential
    \/ WriteOpen
    \/ TxtWrite
    \/ JsonWrite
    \/ Summary
    \/ Shutdown

\* The main thread and the workers keep running: a step the main thread
\* can take is taken in the end, a free worker takes the next queued call,
\* and every call returns in the end, except that nothing is assumed of
\* the calls for the slow source.  Nothing is assumed of interrupts and
\* of failures to open the output file either.
Fairness ==
    /\ WF_vars(MainStep)
    /\ WF_vars(TaskStart)
    /\ WF_vars(FastTaskFinish)

SpecFair == InitFair /\ [][Next]_vars /\ Fairness

----------------------------------------------------------------------------
(* The pool's liveness claim, under SpecFair *)

\* The pool has a worker beside the one the slow source can hold.
WorkerToSpare == config.threads >= 2

\* The k-th call is in the pool, it is for a source other than the slow
\* one, and the pool has a worker to spare.
FastCallInPool(k) ==
    IF InPool /\ k <= Len(tasks)
    THEN tasks[k].src # SlowSrc /\ WorkerToSpare
    ELSE FALSE

\* The k-th call has returned.
CallReturned(k) ==
    IF k <= Len(tasks) THEN tasks[k].state = "done" ELSE FALSE

\* Every call there is has returned, and none is still to be submitted.
EveryCallReturned ==
    /\ InPool
    /\ pc = "shutdown" \/ Len(tasks) = Len(js_urls)
    /\ Unfinished(tasks) = {}

\* C15: in the pool a slow source cannot block the others.  While the
\* call for the slow source stalls, for as long as it likes, and the pool
\* has a worker to spare, the call of every other source in the pool
\* still returns in the end; and once every call has returned the run
\* ends.
C15_SlowSourceDoesNotBlock ==
    /\ \A k \in 1..MaxSources : FastCallInPool(k) ~> CallReturned(k)
    /\ EveryCallReturned ~> pc = "exited"

\* The call for the slow source is still running while the call for a
\* source submitted after it has returned and its result has been taken.
C15_Witness ==
    /\ pc = "collect"
    /\ \E k \in 1..Len(tasks) :
          /\ tasks[k].src = SlowSrc
          /\ tasks[k].state = "running"
          /\ \E j \in (k + 1)..Len(tasks) :
                /\ tasks[j].src # SlowSrc
                /\ tasks[j].state = "done"
                /\ tasks[j].collected


----------------------------------------------------------------------------
(* The scope of a result *)

\* urlparse(url).hostname: the netloc without user information and port,
\* in lower case.
hostname(url) ==
    LET netloc == urlparse(url).netloc
        hostport == Drop(netloc, RFind(netloc, "@"))
        colon == Find(hostport, ":")
    IN  Lower(IF colon = 0 THEN hostport
              ELSE SubSeq(hostport, 1, colon - 1))

\* The sources of a run and every URL the Matcher finds in a response.
RunUrls ==
    Sources \cup UNION {extract_links_from_js(o.text) : o \in RunOutcomes}

\* The host of each of them (a table, worked out once).
HostOf == [u \in RunUrls |-> hostname(u)] @@ <<>>

\* The calls that have returned a result.
ReturnedResults ==
    {tasks[k].out[1].result :
        k \in {j \in 1..Len(tasks) :
                  tasks[j].state = "done" /\ ~tasks[j].out[1].raised}}

\* Every URL of the result r is on the host of r's own source.
OnOwnHost(r) ==
    \A i \in 1..Len(r.extracted_urls) :
        HostOf[r.extracted_urls[i]] = HostOf[r.source_url]

\* C16: each result is scoped to its own source.  In exact-host mode
\* every URL in the extracted_urls of a result, of a call that returned
\* and of the list run_extraction builds, has the host of that result's
\* own source_url, letter case aside, whatever the other sources of the
\* run are and in whatever order the calls return.
C16_ResultScopedToOwnSource ==
    ~config.include_subdomains =>
        /\ \A r \in ReturnedResults : OnOwnHost(r)
        /\ \A i \in 1..Len(results) : OnOwnHost(results[i])

\* A run over two sources on different hosts has returned, in exact-host
\* mode: the results are in the order opposite to the input's, each kept
\* the URL on its own host, the one whose source is written in capitals
\* too, and dropped the URL on the other's.
C16_Witness ==
    /\ RunReturned
    /\ ~config.include_subdomains
    /\ js_urls = <<Src1, Src2>>
    /\ Len(results) = 2
    /\ results[1].source_url = Src2
    /\ results[1].extracted_urls = <<"https://api.a.io/v.js">>
    /\ results[2].source_url = Src1
    /\ results[2].extracted_urls = <<"https://a.io/p?q=1">>


----------------------------------------------------------------------------
(* SpecFilter: one call of filter_urls *)

\* Longest list of URLs handed to filter_urls.
MaxUrls == 2

\* URLs on the hosts of the scopes, on a subdomain, on other hosts, and on
\* a host that only ends in the letters of a scope.
FilterUrls ==
    {"https://a.io/x", "https://A.io/x", "https://api.a.io/v.js?q=1",
     "https://xa.io/x", "https://b.io/x=1", "https://w.a.co.uk/p",
     "https://b.co.uk/p"}

\* Scope hosts, as process_single_url takes them from the source URL.
FilterScopes ==
    {"a.io", "api.a.io", "A.io", "s.API.a.io", "a.co.uk", "localhost"}

FilterCalls ==
    [urls : UNION {SeqsOfLen(FilterUrls, n) : n \in 0..MaxUrls},
     scope : FilterScopes,
     contain_equals : BOOLEAN,
     js_json_only : BOOLEAN,
     include_subdomains : BOOLEAN,
     returned : {FALSE},
     ret : {<<>>}]

InitFilter ==
    /\ call \in FilterCalls
    /\ fetch = FetchEnter(0, DEFAULT_TIMEOUT)
    /\ outfile = AbsentFile
    /\ NoRun

\* The call of filter_urls returns.
FilterReturn ==
    /\ ~call.returned
    /\ call' = [call EXCEPT
                  !.returned = TRUE,
                  !.ret = filter_urls(call.urls, call.scope,
                                      call.contain_equals, call.js_json_only,
                                      call.include_subdomains)]
    /\ UNCHANGED <<fetch, outfile, runvars>>

NextFilter == FilterReturn

SpecFilter == InitFilter /\ [][NextFilter]_vars

----------------------------------------------------------------------------
(* The scope filter's claims, under SpecFilter *)

\* The base domain of a scope host: its last two labels, or its last three
\* when the label before the last is one of the short ones.
BaseDomain(host) ==
    LET labels == Split(host, ".")
        n == Len(labels)
    IN  IF n >= 3 /\ labels[n - 1] \in ShortTlds
        THEN Join(LastN(labels, 3), ".")
        ELSE IF n >= 2 THEN Join(LastN(labels, 2), ".")
        ELSE host

\* The host of the URL is the base domain of the scope host, or is under
\* it; hosts are compared as the filter compares them elsewhere, letter
\* case aside.
UnderBaseDomain(url, scope) ==
    LET host == Lower(urlparse(url).netloc)
        base == Lower(BaseDomain(scope))
    IN  host = base \/ EndsWith(host, "." \o base)

\* C17: with include_subdomains set and neither of the other two filters,
\* filter_urls keeps a URL if and only if the URL's host is the base
\* domain of the scope host or ends with "." and that base domain.
C17_SubdomainMembership ==
    (/\ call.returned
     /\ call.include_subdomains
     /\ ~call.contain_equals
     /\ ~call.js_json_only)
    => call.ret = SelectSeq(call.urls,
                            LAMBDA url : UnderBaseDomain(url, call.scope))

\* The same for the scope hosts written in small letters.
C17_OnLowerCaseScopes ==
    call.scope = Lower(call.scope) => C17_SubdomainMembership

\* A call with a lower-case scope kept a URL on a subdomain whose host
\* is written in capitals and dropped one on another domain.
C17_LowerCaseWitness ==
    /\ call.returned
    /\ call.include_subdomains
    /\ call.scope = "api.a.io"
    /\ call.urls = <<"https://A.io/x", "https://xa.io/x">>
    /\ call.ret = <<"https://A.io/x">>


----------------------------------------------------------------------------
(* SpecMatch: one call of extract_links_from_js *)

\* What stands before a URL in a script.
MatchPrefixes == {"", "x=\"", "f('", "u = "}

\* Absolute URLs: with and without a path, with a port and a query, and
\* with a dollar sign of their own.
MatchUrls ==
    {"https://ex.com", "https://ex.com/", "https://ex.com/a/b",
     "http://a.io:80/p?q=1", "https://ex.com/a$b"}

\* What follows the URL: a template substitution, alone and with more of
\* the URL after it, the end of the string literal, a dollar sign that
\* opens nothing, and nothing.
MatchSuffixes == {"${id}", "${id}/v1\";", "\";", "')", "$", ""}

MatchCalls ==
    {[pre |-> pre, url |-> url, suf |-> suf, text |-> pre \o url \o suf,
      returned |-> FALSE, ret |-> {}] :
        pre \in MatchPrefixes, url \in MatchUrls, suf \in MatchSuffixes}

InitMatch ==
    /\ call \in MatchCalls
    /\ fetch = FetchEnter(0, DEFAULT_TIMEOUT)
    /\ outfile = AbsentFile
    /\ NoRun

\* The call of extract_links_from_js returns (the list it returns, as a
\* set).
MatchReturn ==
    /\ ~call.returned
    /\ call' = [call EXCEPT !.returned = TRUE,
                            !.ret = extract_links_from_js(call.text)]
    /\ UNCHANGED <<fetch, outfile, runvars>>

NextMatch == MatchReturn

SpecMatch == InitMatch /\ [][NextMatch]_vars

----------------------------------------------------------------------------
(* The Matcher's claims, under SpecMatch *)

\* The URL in the text is directly followed by a template substitution.
BeforeOpener == LitAt(call.suf, 1, "${")

\* C18: the Matcher truncates a URL at a template-substitution opener.
\* For a text in which an absolute URL is directly followed by "${", the
\* URL extract_links_from_js returns is the part before the "${", and no
\* URL it returns contains "${" or the "$" of the opener.
C18_TruncatesAtTemplateOpener ==
    (call.returned /\ BeforeOpener) =>
        /\ call.ret = {call.url}
        /\ \A u \in call.ret :
              /\ Find(u, "${") = 0
              /\ Len(u) <= Len(call.url)

\* No URL the Matcher returns contains "${".
C18_NoOpenerReturned ==
    call.returned => \A u \in call.ret : Find(u, "${") = 0

\* The URL of a text without a path, followed by a template substitution,
\* has been returned as it is.
C18_NoPathWitness ==
    /\ call.returned
    /\ BeforeOpener
    /\ call.url = "https://ex.com"
    /\ call.ret = {"https://ex.com"}


----------------------------------------------------------------------------
(* The structured summary *)

RECURSIVE Flatten(_)
\* The extracted URLs of all results, one after the other.
Flatten(rs) ==
    IF rs = <<>> THEN <<>>
    ELSE Head(rs).extracted_urls \o Flatten(Tail(rs))

\* main has called write_results_json with the results of the run, and
\* the writer has opened the file.
JsonWriterCalled == pc = "dump" /\ outfile.content = ""

\* C19: the summary write_results_json builds is consistent, for every
\* list of results and in whatever order they arrived.  successful and
\* failed add up to total_sources, the number of results; successful
\* counts the results without an error and failed those with one;
\* total_urls_found is the sum of the counts of the entries, the number
\* of URLs in all results; unique_urls holds each URL of a result once;
\* unique_url_count is their number, is at most total_urls_found, and is
\* what write_results_json returns.
C19_SummaryConsistent ==
    JsonWriterCalled =>
        \A d \in {output_data(results)}, all \in {Flatten(results)} :
            /\ d.total_sources = Len(results)
            /\ d.successful + d.failed = d.total_sources
            /\ d.successful =
                  Cardinality({i \in 1..Len(results) :
                                  results[i].error = None})
            /\ d.failed =
                  Cardinality({i \in 1..Len(results) :
                                  results[i].error # None})
            /\ Len(d.results) = Len(results)
            /\ \A i \in 1..Len(results) :
                  d.results[i].urls_found = Len(results[i].extracted_urls)
            /\ d.total_urls_found = Len(all)
            /\ Range(d.unique_urls) = Range(all)
            /\ d.unique_url_count = Len(d.unique_urls)
            /\ d.unique_url_count = Cardinality(Range(all))
            /\ d.unique_url_count <= d.total_urls_found
            /\ write_results_json(results, outfile).ret = d.unique_url_count

\* The writer has been called with two results, the second source's
\* first, that found the same two URLs each: four URLs found, two unique.
C19_Witness ==
    /\ JsonWriterCalled
    /\ js_urls = <<Src1, Src2>>
    /\ Len(results) = 2
    /\ results[1].source_url = Src2
    /\ output_data(results).successful = 2
    /\ output_data(results).total_urls_found = 4
    /\ output_data(results).unique_url_count = 2


----------------------------------------------------------------------------
(* The empty response *)

\* The calls that have returned or raised.
DoneTasks == {k \in 1..Len(tasks) : tasks[k].state = "done"}

\* The fetch of the call t succeeded with a 2xx status and an empty body.
EmptyBody(t) ==
    /\ t.ret[1][1] = Some("")
    /\ t.ret[1][2] # None
    /\ t.ret[1][2][1] >= 200 /\ t.ret[1][2][1] < 300
    /\ t.ret[1][3] = None

\* The fetch of the call t failed: fetch_url returned an error.
FetchFailed(t) == Truthy(t.ret[1][3])

\* The result r is counted as failed: by the writer's summary, and by the
\* exit status when it is the only result.
CountedFailed(r) ==
    /\ \A d \in {output_data(<<r>>)} : d.failed = 1 /\ d.successful = 0
    /\ ExitStatus(<<r>>) = 1

\* C20: a fetch that succeeds with an empty body is an error of its
\* source, and not the error of a failed fetch.  The call returns a
\* result with the error "Empty response" that keeps the 2xx status code,
\* has no extracted URLs and is counted as failed; the result of a call
\* whose fetch failed never carries that error.
C20_EmptyResponseIsItsOwnError ==
    \A k \in DoneTasks :
        LET t == tasks[k]
            r == t.out[1].result
        IN  /\ EmptyBody(t) =>
                /\ ~t.out[1].raised
                /\ r.source_url = t.src
                /\ r.error = Some("Empty response")
                /\ r.status_code = t.ret[1][2]
                /\ r.extracted_urls = <<>>
                /\ CountedFailed(r)
            /\ FetchFailed(t) =>
                /\ r.error = t.ret[1][3]
                /\ r.error # Some("Empty response")

\* The run has the result of a source whose fetch returned 200 and an
\* empty body, and the result of a source whose fetch timed out.
C20_Witness ==
    /\ Len(results) = 2
    /\ \E k \in DoneTasks :
          /\ EmptyBody(tasks[k])
          /\ tasks[k].ret[1][2] = Some(200)
          /\ results[1] = tasks[k].out[1].result
          /\ results[1].error = Some("Empty response")
    /\ \E k \in DoneTasks :
          /\ FetchFailed(tasks[k])
          /\ tasks[k].ret[1][2] = None
          /\ results[2] = tasks[k].out[1].result
          /\ results[2].error = Some("Timeout after 10s")


----------------------------------------------------------------------------
(* The input list that cannot be read *)

\* The run needs the input list (no --url, an --input-file) and cannot
\* read it.
ListUnreadable ==
    /\ ~Truthy(config.single_url)
    /\ Truthy(config.input_file)
    /\ ~infile.readable

\* C21: if the required input list cannot be read the whole run aborts
\* with no results.  The run never gets past the reading of the list: it
\* has no source, no call of process_single_url is made (so no fetch is
\* issued), there is no result, the output file is as it was before the
\* run, created nor modified, and when the run has ended its exit status
\* is a failure.
C21_UnreadableListAbortsRun ==
    ListUnreadable =>
        /\ pc \in {"main", "run_extraction", "exited"}
        /\ js_urls = <<>>
        /\ tasks = <<>>
        /\ results = <<>>
        /\ wq = <<>>
        /\ outfile = origin
        /\ pc = "exited" => exit.code # 0

\* A run whose list cannot be read has ended of its own with status 1,
\* and the output file of an earlier run is there as it was.
C21_Witness ==
    /\ ListUnreadable
    /\ pc = "exited"
    /\ exit = Exit(1, "return")
    /\ outfile.exists
    /\ outfile.content = OldLine \o "\n"
    /\ tasks = <<>>


----------------------------------------------------------------------------
(* SpecProcess: one call of process_single_url, its fetch an iteration at
   a time *)

\* The configurations of the call: the retry counts argparse lets
\* through, with and without the filter on "=" and the subdomains.
ProcessConfigs ==
    [retries : RetriesDomain,
     timeout : {DEFAULT_TIMEOUT},
     contain_equals : BOOLEAN,
     js_json_only : {FALSE},
     include_subdomains : BOOLEAN]

ProcessCalls ==
    [js_url : Sources, cfg : ProcessConfigs, returned : {FALSE},
     raised : {FALSE}, result : {<<>>}]

InitProcess ==
    /\ call \in ProcessCalls
    /\ fetch = FetchEnter(call.cfg.retries, call.cfg.timeout)
    /\ outfile = AbsentFile
    /\ NoRun

\* One iteration of the loop of the call's fetch_url.
ProcessFetch ==
    /\ ~call.returned
    /\ fetch.pc = "loop"
    /\ \E o \in Outcomes : fetch' = FetchStep(fetch, o)
    /\ UNCHANGED <<outfile, call, runvars>>

\* fetch_url has returned, and process_single_url goes on to its end.
ProcessReturn ==
    /\ ~call.returned
    /\ fetch.pc = "returned"
    /\ \E out \in process_single_url(call.js_url, call.cfg, fetch.ret) :
          call' = [call EXCEPT !.returned = TRUE,
                               !.raised = out.raised,
                               !.result = out.result]
    /\ UNCHANGED <<fetch, outfile, runvars>>

NextProcess == ProcessFetch \/ ProcessReturn

SpecProcess == InitProcess /\ [][NextProcess]_vars

----------------------------------------------------------------------------
(* The result's well-formedness, under SpecProcess *)

\* What the last request of the fetch ended in.
LastOutcome == fetch.outs[Len(fetch.outs)]

\* The fetch ended without an HTTP response: its last request ended in an
\* exception of the transport, or it made no request at all.
NoResponse ==
    IF fetch.outs = <<>> THEN TRUE ELSE LastOutcome.kind # "response"

\* The fetch ended with an HTTP error status.
HTTPErrorOutcome ==
    IF fetch.outs = <<>> THEN FALSE ELSE RaisesHTTPError(LastOutcome)

\* The fetch ended with a response that is no error and has no body.
EmptyBodyOutcome ==
    IF fetch.outs = <<>> THEN FALSE
    ELSE /\ LastOutcome.kind = "response"
         /\ ~RaisesHTTPError(LastOutcome)
         /\ LastOutcome.text = ""

\* C22: every ExtractionResult process_single_url returns is well formed,
\* whatever its fetch ended in.  The call returns a result for its own
\* source; if the result has an error it has no extracted URLs; it has a
\* status code together with an error exactly when the fetch ended with
\* an HTTP error status or with an empty body; and it has no status code
\* exactly when the fetch ended without an HTTP response.
C22_ResultWellFormed ==
    call.returned =>
        /\ ~call.raised
        /\ call.result.source_url = call.js_url
        /\ call.result.error # None => call.result.extracted_urls = <<>>
        /\ (call.result.status_code # None /\ call.result.error # None)
              <=> (HTTPErrorOutcome \/ EmptyBodyOutcome)
        /\ call.result.status_code = None <=> NoResponse

\* The call has returned after a request that timed out and one that
\* ended in 404: the result has the status code and the error.
C22_Witness ==
    /\ call.returned
    /\ Len(fetch.outs) = 2
    /\ fetch.outs[1].kind = "Timeout"
    /\ fetch.outs[2].kind = "response"
    /\ fetch.outs[2].status_code = 404
    /\ call.result.status_code = Some(404)
    /\ call.result.error = Some("HTTP 404")
    /\ call.result.extracted_urls = <<>>


----------------------------------------------------------------------------
(* A source in its own scope, under SpecFilter *)

\* The URL is on the host of the scope, letter case aside.
OnScopeHost(url, scope) == Lower(urlparse(url).netloc) = Lower(scope)

\* The call applies the host-membership test alone.
ScopeTestAlone ==
    call.returned /\ ~call.contain_equals /\ ~call.js_json_only

\* C23: a source is always in its own scope.  Whatever the letter case of
\* the source's host, which is the scope of the call, filter_urls keeps
\* every URL whose host is that host, letter case aside, in exact-host
\* mode and with include_subdomains set.
C23_SourceInOwnScope ==
    ScopeTestAlone =>
        \A i \in 1..Len(call.urls) :
            OnScopeHost(call.urls[i], call.scope)
                => call.urls[i] \in Range(call.ret)

\* The same in exact-host mode alone.
C23_InExactMode ==
    ~call.include_subdomains => C23_SourceInOwnScope

\* In exact-host mode a call whose scope is written in capitals kept the
\* URLs on that host, however written, and no other.
C23_ExactModeWitness ==
    /\ ScopeTestAlone
    /\ ~call.include_subdomains
    /\ call.scope = "A.io"
    /\ call.urls = <<"https://a.io/x", "https://A.io/x">>
    /\ call.ret = call.urls

====
